---- MODULE Spec2Model ----
(***************************************************************************)
(* containers::Vector<T> (src/src/vector/vector.h) as a state machine.     *)
(*                                                                         *)
(* Two Vector objects, "a" and "b", live over a heap of buffers.  A buffer *)
(* is the sequence of the slots that `new T[n]` allocated; a Vector holds  *)
(* data_ (a buffer id or Null), size_ and capacity_, exactly the three     *)
(* fields of the class.  capacity_ is the field, Len(heap[data_]) is what  *)
(* was really allocated: the code can make the two differ.                 *)
(*                                                                         *)
(* Undefined behaviour is a choice over its outcomes: a slot that          *)
(* `new T[n]` left uninitialised holds any value; a read past the end of   *)
(* a buffer yields any value, a write past the end is lost to the buffer,  *)
(* and either may instead kill the process ("crash"); an access through a  *)
(* null data_ and a loop that runs over the whole address space crash.     *)
(*                                                                         *)
(* vector_iterator.h is not among the sources.  The iterator is modelled   *)
(* from the specification and from what the tests observe: it carries the  *)
(* buffer, the size it was created with and an index, `it + n` raises      *)
(* out_of_range when the index leaves [0, size], and `it[i]` addresses     *)
(* slot i of the buffer.                                                   *)
(***************************************************************************)
EXTENDS Integers, Sequences, FiniteSets, TLC

\* ------------------------------------------------------------- bounds
\* The largest number of slots one buffer may have in the explored runs.
MaxCap == 3
\* The largest number of arguments of a variadic call, and of initial items.
MaxArgs == 2

\* size_type is size_t: arithmetic on it wraps.  Its width is scaled down
\* (TLC's integers are 32 bits wide); every in-range quantity of the model
\* stays far below SizeMod, so only 0 - 1 and (size_t)(-k) wrap, as on 64 bits.
SizeMod == 256
\* The null value of std::shared_ptr<T[]> data_.
Null == 0

Values == {1, 2}
Vecs == {"a", "b"}
BufIds == 1..3
\* reserve(-2) of the tests: a request no allocation can satisfy.
Huge == SizeMod - 2
\* The value-initialised T of `const_reference value = {}`.
DefaultValue == CHOOSE x \in Values : \A y \in Values : x <= y

VARIABLES
    vec,    \* vec[v]: the fields data_, size_, capacity_ of Vector v
    heap,   \* heap[d]: the slots of buffer d (<<>> when d is not allocated)
    last,   \* the last call: its name, object, arguments, outcome and result
    table   \* table[s]: the entries of the keyed table t of Set s

vars == <<vec, heap, last, table>>

Min(x, y) == IF x <= y THEN x ELSE y
Wrap(x) == x % SizeMod

EmptyVector == [data_ |-> Null, size_ |-> 0, capacity_ |-> 0]
\* Set() = default: both Sets start with an empty table.
InitTable == [s \in Vecs |-> <<>>]
InitVec == [v \in Vecs |-> EmptyVector]
InitHeap == [d \in BufIds |-> <<>>]

\* ------------------------------------------------------------- the heap
Slots(h, d) == IF d = Null THEN <<>> ELSE h[d]
Allocated(h, r) == Len(Slots(h, r.data_))

\* The buffers some Vector of vs holds.
Live(vs) == {vs[x].data_ : x \in Vecs} \ {Null}
\* `new T[n]` returns a block that is none of the live ones.
Fresh(used) == CHOOSE f \in BufIds \ used : \A g \in BufIds \ used : f <= g
\* The shared_ptr drops buffer d: it is freed unless a Vector of vs holds it.
Release(vs, h, d) ==
    IF d = Null \/ d \in Live(vs) THEN h ELSE [h EXCEPT ![d] = <<>>]

\* What `new T[n]` followed by the assignment of `written` to its first slots
\* leaves in the block: the other slots are uninitialised.  With `slots` for
\* `written` and n for a length, it is also what reading n slots of a buffer
\* yields: the slots that exist, and anything past its end.
Indeterminate(n, written) ==
    {s \in [1..n -> Values] :
        \A i \in 1..Min(n, Len(written)) : s[i] = written[i]}

\* Whether `new T[n]` succeeds: it may always fail (std::bad_alloc), and a
\* Huge request always does.  Requests between MaxCap and Huge are outside the
\* explored runs: the call that makes one is not taken.
AllocResults(n) ==
    IF n <= MaxCap THEN {TRUE, FALSE} ELSE IF n >= Huge THEN {FALSE} ELSE {}

\* One slot access it[i] / data_[i], i counted from 0.
ReadAt(slots, i) == IF i < Len(slots) THEN {slots[i + 1]} ELSE Values
WriteAt(slots, i, x) == IF i < Len(slots) THEN [slots EXCEPT ![i + 1] = x] ELSE slots

\* ------------------------------------------------------------- outcomes
\* A call ends with the Vectors vs, the heap h, the exception ex it raised
\* ("none" when it returned) and the value ret it returned (0: none).
Out(vs, h, ex, ret) == [vs |-> vs, h |-> h, ex |-> ex, ret |-> ret]
\* The process died: nothing of its state is left.
Crash == Out(InitVec, InitHeap, "crash", 0)
CrashIf(c) == IF c THEN {Crash} ELSE {}

\* ------------------------------------------------------------- iterator
\* IterPlus without the check of the upper end: the step may pass end().
IterPlusNoUpperCheck(size, index, n) ==
    IF index + n < 0 THEN 0 - 1 ELSE index + n

\* VectorIterator(data_, size_) + n: the index, or -1 for std::out_of_range
\* "Error: Step goes beyond vector size".
IterPlus(size, index, n) ==
    IF index + n < 0 \/ index + n > size THEN 0 - 1 ELSE index + n

\* An iterator value: the buffer it shares and its index in it, as one
\* number (a call returns one number).
IterAt(d, i) == d * SizeMod + i
IterData(it) == it \div SizeMod
IterIndex(it) == it % SizeMod

\* ------------------------------------------------------------- construction
\* The object in slot v goes out of scope before a new one is declared there.
Destroy(vs, h, v) ==
    LET vs1 == [vs EXCEPT ![v] = EmptyVector]
    IN Out(vs1, Release(vs1, h, vs[v].data_), "none", 0)

\* allocate_vector(n) of a Vector whose fields are already r, then the
\* assignment of `written` to the first slots of the new block.  data_.reset
\* frees the block v held once the new one exists.
AllocateVector(vs, h, v, r, n, written) ==
    UNION {
        IF ~ok THEN {Out([vs EXCEPT ![v] = [r EXCEPT !.data_ = vs[v].data_]],
                         h, "runtime_error", 0)}
        ELSE LET f == Fresh(Live(vs))
                 vs1 == [vs EXCEPT ![v] = [r EXCEPT !.data_ = f]]
             IN {Out(vs1, Release(vs1, [h EXCEPT ![f] = s], vs[v].data_), "none", 0)
                    : s \in Indeterminate(n, written)}
        : ok \in AllocResults(n)}

\* A constructor that throws leaves no object: the slot is empty.
NoObject(o, v) ==
    IF o.ex = "none" THEN o
    ELSE Out([o.vs EXCEPT ![v] = EmptyVector], o.h, o.ex, 0)

\* Vector(): the fields' default member initialisers.
DefaultCtor(vs, h, v) == {Destroy(vs, h, v)}

\* A fill constructor that allocates and does not fill.
FillCtorUnfilled(vs, h, v, n, value) ==
    LET d == Destroy(vs, h, v)
        r == [data_ |-> Null, size_ |-> n, capacity_ |-> n]
    IN {NoObject(o, v) : o \in AllocateVector(d.vs, d.h, v, r, n, <<>>)}

\* explicit Vector(size_type capacity, const_reference value)
FillCtor(vs, h, v, n, value) ==
    LET d == Destroy(vs, h, v)
        r == [data_ |-> Null, size_ |-> n, capacity_ |-> n]
    IN {NoObject(o, v) :
          o \in AllocateVector(d.vs, d.h, v, r, n, [i \in 1..n |-> value])}

\* Vector(std::initializer_list<T> const& items)
ListCtor(vs, h, v, items) ==
    LET d == Destroy(vs, h, v)
        n == Len(items)
        r == [data_ |-> Null, size_ |-> n, capacity_ |-> n]
    IN {NoObject(o, v) : o \in AllocateVector(d.vs, d.h, v, r, n, items)}

\* std::copy(v.begin(), v.end(), ...): the size_ slots read from src's buffer.
\* Reading past the end of the buffer yields anything.
ReadRange(h, r) == Indeterminate(r.size_, Slots(h, r.data_))
\* Whether that read leaves the buffer.
ReadsPastEnd(h, r) == r.size_ > Allocated(h, r)

\* Vector(const Vector<T>& v), constructing slot dst from src.
CopyCtor(vs, h, dst, src) ==
    LET d == Destroy(vs, h, dst)
        n == vs[src].size_
        r == [data_ |-> Null, size_ |-> n, capacity_ |-> n]
    IN CrashIf(ReadsPastEnd(h, vs[src]))
       \cup UNION {{NoObject(o, dst) :
                      o \in AllocateVector(d.vs, d.h, dst, r, n, items)}
                   : items \in ReadRange(h, vs[src])}

\* A move constructor that copies the shared_ptr instead of moving it: the
\* source keeps its reference to the block.
MoveCtorSharesBuffer(vs, h, dst, src) ==
    LET d == Destroy(vs, h, dst)
        r == [data_ |-> vs[src].data_, size_ |-> vs[src].size_,
              capacity_ |-> vs[src].size_]
    IN {Out([d.vs EXCEPT ![dst] = r,
                         ![src] = [vs[src] EXCEPT !.size_ = 0, !.capacity_ = 0]],
            d.h, "none", 0)}

\* A move constructor that takes the block and leaves the source's size_
\* and capacity_ as they are.
MoveCtorKeepsSourceSize(vs, h, dst, src) ==
    LET d == Destroy(vs, h, dst)
        r == [data_ |-> vs[src].data_, size_ |-> vs[src].size_,
              capacity_ |-> vs[src].size_]
    IN {Out([d.vs EXCEPT ![dst] = r, ![src].data_ = Null], d.h, "none", 0)}

\* Vector(Vector<T>&& v) noexcept, constructing slot dst from src.
MoveCtor(vs, h, dst, src) ==
    LET d == Destroy(vs, h, dst)
        r == [data_ |-> vs[src].data_, size_ |-> vs[src].size_,
              capacity_ |-> vs[src].size_]
    IN {Out([d.vs EXCEPT ![dst] = r, ![src] = EmptyVector], d.h, "none", 0)}

\* Vector& operator=(Vector&& v) noexcept.  An exception leaving a noexcept
\* function calls std::terminate.
MoveAssign(vs, h, dst, src) ==
    LET n == vs[src].size_
        r == [vs[dst] EXCEPT !.size_ = n, !.capacity_ = vs[src].capacity_]
    IN CrashIf(ReadsPastEnd(h, vs[src]))
       \cup UNION {{IF o.ex = "none" THEN o ELSE Crash :
                      o \in AllocateVector(vs, h, dst, r, n, items)}
                   : items \in ReadRange(h, vs[src])}

\* ------------------------------------------------------------- capacity
\* void reserve(size_type new_cap).  `auto tmp{*this}` is the copy constructor
\* (tmp's block is freed on return); capacity_ is assigned before
\* allocate_vector, which may throw; the copy back writes tmp's size_ slots.
reserve(vs, h, v, new_cap) ==
    LET r == vs[v]
        nc == IF new_cap = 0 THEN 2 ELSE new_cap
    IN IF ~(nc > r.capacity_) THEN {Out(vs, h, "none", 0)}
       ELSE IF AllocResults(nc) = {} THEN {}
       ELSE {Out(vs, h, "runtime_error", 0)}
            \cup CrashIf(ReadsPastEnd(h, r))
            \cup CrashIf(TRUE \in AllocResults(nc) /\ r.size_ > nc)
            \cup UNION {AllocateVector(vs, h, v, [r EXCEPT !.capacity_ = nc], nc, tmp)
                          : tmp \in ReadRange(h, r)}

\* void shrink_to_fit().  `new T[capacity_]` is not wrapped: std::bad_alloc
\* leaves as it is, after capacity_ was assigned.
shrink_to_fit(vs, h, v) ==
    LET r == vs[v]
        r1 == [r EXCEPT !.capacity_ = r.size_]
    IN IF ~(r.size_ < r.capacity_) THEN {Out(vs, h, "none", 0)}
       ELSE IF r.data_ = Null /\ r.size_ > 0 THEN {Crash}
       ELSE CrashIf(ReadsPastEnd(h, r))
            \cup UNION {{IF o.ex = "none" THEN o
                         ELSE Out(o.vs, o.h, "bad_alloc", 0)
                           : o \in AllocateVector(vs, h, v, r1, r.size_, items)}
                        : items \in ReadRange(h, r)}

\* ------------------------------------------------------------- element access
\* reference at(const size_type pos): the value read through the reference.
at(vs, h, v, pos) ==
    LET r == vs[v]
    IN IF pos >= r.size_ THEN {Out(vs, h, "out_of_range", 0)}
       ELSE IF r.data_ = Null THEN {Crash}
       ELSE CrashIf(pos >= Allocated(h, r))
            \cup {Out(vs, h, "none", x) : x \in ReadAt(Slots(h, r.data_), pos)}

\* reference operator[](size_type pos)
Index(vs, h, v, pos) == at(vs, h, v, pos)

\* const_reference front() const
front(vs, h, v) == at(vs, h, v, 0)

\* const_reference back() const: size_ - 1 wraps on an empty Vector.
back(vs, h, v) == at(vs, h, v, Wrap(vs[v].size_ - 1))

\* void set_element(size_type pos, const_reference value): at(pos) = value.
set_element(vs, h, v, pos, value) ==
    LET r == vs[v]
    IN IF pos >= r.size_ THEN {Out(vs, h, "out_of_range", 0)}
       ELSE IF r.data_ = Null THEN {Crash}
       ELSE CrashIf(pos >= Allocated(h, r))
            \cup {Out(vs, [h EXCEPT ![r.data_] = WriteAt(@, pos, value)], "none", 0)}

\* ------------------------------------------------------------- modifiers
\* clear that gives the buffer up as well.
clearReleasesBuffer(vs, h, v) == {Destroy(vs, h, v)}

\* void clear()
clear(vs, h, v) == {Out([vs EXCEPT ![v].size_ = 0], h, "none", 0)}

\* pop_back that treats the empty Vector as an error.
pop_backChecked(vs, h, v) ==
    IF vs[v].size_ > 0
    THEN {Out([vs EXCEPT ![v].size_ = @ - 1], h, "none", 0)}
    ELSE {Out(vs, h, "out_of_range", 0)}

\* void pop_back()
pop_back(vs, h, v) ==
    IF vs[v].size_ > 0
    THEN {Out([vs EXCEPT ![v].size_ = @ - 1], h, "none", 0)}
    ELSE {Out(vs, h, "none", 0)}

\* swap that exchanges data_ and size_ and forgets capacity_.
swapKeepsCapacity(vs, h, v, other) ==
    {Out([vs EXCEPT ![v] = [vs[other] EXCEPT !.capacity_ = vs[v].capacity_],
                    ![other] = [vs[v] EXCEPT !.capacity_ = vs[other].capacity_]],
         h, "none", 0)}

\* void swap(Vector<T>& other)
swap(vs, h, v, other) ==
    {Out([vs EXCEPT ![v] = vs[other], ![other] = vs[v]], h, "none", 0)}

\* v.swap(other); v.swap(other);
SwapTwice(vs, h, v, other) ==
    UNION {swap(o.vs, o.h, v, other) : o \in swap(vs, h, v, other)}

\* for (i = size() + numArgs - 1; i >= posIndex + numArgs; --i) it[i] = it[i - numArgs];
\* from index i down to lo.  Every slots sequence the loop can leave.
RECURSIVE ShiftRight(_, _, _, _)
ShiftRight(slots, i, lo, n) ==
    IF i < lo THEN {slots}
    ELSE UNION {ShiftRight(WriteAt(slots, i, x), i - 1, lo, n)
                  : x \in ReadAt(slots, i - n)}

\* for (i = posIndex; i < size() - 1; ++i) it[i] = it[i + 1]; from i up to hi.
RECURSIVE ShiftLeft(_, _, _)
ShiftLeft(slots, i, hi) ==
    IF i > hi THEN {slots}
    ELSE UNION {ShiftLeft(WriteAt(slots, i, x), i + 1, hi)
                  : x \in ReadAt(slots, i + 1)}

\* ((it[posIndex++] = args), ...) and ((data_[size_++] = args), ...)
RECURSIVE WriteArgs(_, _, _)
WriteArgs(slots, i, args) ==
    IF args = <<>> THEN slots
    ELSE WriteArgs(WriteAt(slots, i, Head(args)), i + 1, Tail(args))

\* insert_many after its growth step, on the Vectors vs it left.  The loop
\* counter is unsigned: with posIndex + numArgs = 0 the loop never ends and
\* runs over the whole address space.
InsertShift(vs, h, v, posIndex, args) ==
    LET r == vs[v]
        n == Len(args)
        top == r.size_ + n - 1
        touches == n > 0 \/ top >= posIndex
    IN IF IterPlus(r.size_, 0, posIndex) < 0
       THEN {Out(vs, h, "out_of_range", 0)}
       ELSE IF posIndex + n = 0 THEN {Crash}
       ELSE IF touches /\ r.data_ = Null THEN {Crash}
       ELSE IF ~touches
       THEN {Out(vs, h, "none", 0)}
       ELSE CrashIf(top >= Allocated(h, r))
            \cup {Out([vs EXCEPT ![v].size_ = @ + n],
                      [h EXCEPT ![r.data_] = WriteArgs(s, posIndex, args)],
                      "none", 0)
                    : s \in ShiftRight(Slots(h, r.data_), top, posIndex + n, n)}

\* insert_many that grows by doubling the capacity.
insert_manyDoubling(vs, h, v, posIndex, args) ==
    LET r == vs[v]
        n == Len(args)
        grown == IF r.size_ + n > r.capacity_
                 THEN reserve(vs, h, v, Wrap(r.capacity_ * 2))
                 ELSE {Out(vs, h, "none", 0)}
    IN UNION {IF g.ex # "none" THEN {g}
              ELSE {IF o.ex = "none"
                    THEN [o EXCEPT !.ret = IterAt(g.vs[v].data_, posIndex)] ELSE o
                      : o \in InsertShift(g.vs, g.h, v, posIndex, args)}
                : g \in grown}

\* insert_many that returns the caller's pos also after it has reallocated.
insert_manyStalePos(vs, h, v, posIndex, args) ==
    LET r == vs[v]
        n == Len(args)
        grown == IF r.size_ + n > r.capacity_
                 THEN reserve(vs, h, v, r.size_ + n)
                 ELSE {Out(vs, h, "none", 0)}
    IN UNION {IF g.ex # "none" THEN {g}
              ELSE {IF o.ex = "none"
                    THEN [o EXCEPT !.ret = IterAt(r.data_, posIndex)] ELSE o
                      : o \in InsertShift(g.vs, g.h, v, posIndex, args)}
                : g \in grown}

\* iterator insert_many(iterator pos, Args&&... args), pos at index posIndex
\* of the buffer the Vector has when the call is made.  After a reserve pos
\* is made again as begin() + posIndex; pos is what the call returns.
insert_many(vs, h, v, posIndex, args) ==
    LET r == vs[v]
        n == Len(args)
        grows == r.size_ + n > r.capacity_
        grown == IF grows
                 THEN reserve(vs, h, v, r.size_ + n)
                 ELSE {Out(vs, h, "none", 0)}
    IN UNION {IF g.ex # "none" THEN {g}
              ELSE LET pos == IF grows THEN IterAt(g.vs[v].data_, posIndex)
                                       ELSE IterAt(r.data_, posIndex)
                   IN {IF o.ex = "none" THEN [o EXCEPT !.ret = pos] ELSE o
                         : o \in InsertShift(g.vs, g.h, v, posIndex, args)}
                : g \in grown}

\* iterator insert(iterator pos, const_reference value)
insert(vs, h, v, posIndex, value) == insert_many(vs, h, v, posIndex, <<value>>)

\* insert_many_back after its growth step.
AppendArgs(vs, h, v, args) ==
    LET r == vs[v]
        n == Len(args)
    IN IF n = 0 THEN {Out(vs, h, "none", 0)}
       ELSE IF r.data_ = Null THEN {Crash}
       ELSE CrashIf(r.size_ + n > Allocated(h, r))
            \cup {Out([vs EXCEPT ![v].size_ = @ + n],
                      [h EXCEPT ![r.data_] = WriteArgs(@, r.size_, args)],
                      "none", 0)}

\* insert_many_back that grows a full Vector by one slot.
insert_many_backGrowsByOne(vs, h, v, args) ==
    LET r == vs[v]
        grown == IF r.size_ = r.capacity_
                 THEN reserve(vs, h, v, Wrap(r.capacity_ + 1))
                 ELSE {Out(vs, h, "none", 0)}
    IN UNION {IF g.ex # "none" THEN {g} ELSE AppendArgs(g.vs, g.h, v, args)
                : g \in grown}

\* void insert_many_back(Args&&... args): the capacity is looked at once.
insert_many_back(vs, h, v, args) ==
    LET r == vs[v]
        grown == IF r.size_ = r.capacity_
                 THEN reserve(vs, h, v, Wrap(r.capacity_ * 2))
                 ELSE {Out(vs, h, "none", 0)}
    IN UNION {IF g.ex # "none" THEN {g} ELSE AppendArgs(g.vs, g.h, v, args)
                : g \in grown}

\* void push_back(const_reference value)
push_back(vs, h, v, value) == insert_many_back(vs, h, v, <<value>>)

\* void erase(iterator pos), pos at index posIndex.  size() - 1 is unsigned:
\* on an empty Vector the loop runs over the whole address space.
erase(vs, h, v, posIndex) ==
    LET r == vs[v]
        runs == posIndex + 1 < r.size_
    IN IF r.size_ = 0 THEN {Crash}
       ELSE IF runs /\ r.data_ = Null THEN {Crash}
       ELSE IF ~runs THEN {Out([vs EXCEPT ![v].size_ = @ - 1], h, "none", 0)}
       ELSE CrashIf(r.size_ > Allocated(h, r))
            \cup {Out([vs EXCEPT ![v].size_ = @ - 1],
                      [h EXCEPT ![r.data_] = s], "none", 0)
                    : s \in ShiftLeft(Slots(h, r.data_), posIndex, r.size_ - 2)}

\* ------------------------------------------------------------- call sequences
\* The calls fs[1], fs[2], ... made one after the other on Vector v, each on
\* the state the one before left; an exception or a crash ends the sequence.
\* A call is <<"push_back", x>> or <<"pop_back">>.
RECURSIVE Sequence(_, _, _, _)
Sequence(vs, h, v, fs) ==
    IF fs = <<>> THEN {Out(vs, h, "none", 0)}
    ELSE LET f == Head(fs)
             first == IF f[1] = "push_back" THEN push_back(vs, h, v, f[2])
                      ELSE pop_back(vs, h, v)
         IN UNION {IF o.ex # "none" THEN {o}
                   ELSE Sequence(o.vs, o.h, v, Tail(fs)) : o \in first}

\* n push_back calls, of the values xs, followed by n pop_back calls.
PushThenPop(vs, h, v, xs) ==
    Sequence(vs, h, v, [i \in 1..Len(xs) |-> <<"push_back", xs[i]>>]
                        \o [i \in 1..Len(xs) |-> <<"pop_back">>])

\* Vector v is default-constructed and the values xs are push_back'ed.
PushBacks(vs, h, v, xs) ==
    UNION {Sequence(d.vs, d.h, v, [i \in 1..Len(xs) |-> <<"push_back", xs[i]>>])
             : d \in DefaultCtor(vs, h, v)}

\* ------------------------------------------------------------- the calls
\* The arguments the calls are made with.
ArgLists == UNION {[1..n -> Values] : n \in 0..MaxArgs}
Caps == (0..MaxCap) \cup {Huge}
\* at(-1) of the tests is at(SIZE_MAX).
Positions == (0..(MaxCap + 1)) \cup {SizeMod - 1}
\* The steps n of begin() + n and begin() - n a caller takes.
Offsets == (0 - 1)..(MaxCap + 1)
MaxSize == MaxCap + 1

\* The outcomes inside the explored bounds.
Explored(o) == \A x \in Vecs : o.vs[x].size_ <= MaxSize

NoCall == [op |-> "none", v |-> "a", pos |-> 0, vals |-> <<>>,
           res |-> "none", ret |-> 0]

\* The caller makes one call at a time; the call ends in one of its outcomes,
\* which `last` holds until the caller has taken it (Return).  A crashed
\* process makes no further step.
Call(op, v, pos, vals, outs) ==
    /\ last = NoCall
    /\ \E o \in outs :
          /\ Explored(o)
          /\ vec' = o.vs
          /\ heap' = o.h
          /\ last' = [op |-> op, v |-> v, pos |-> pos, vals |-> vals,
                      res |-> o.ex, ret |-> o.ret]
    /\ UNCHANGED table

\* A position is made by the caller as begin() + off: the iterator raises
\* out_of_range there, before the member function is entered.
AtOffset(v, off, outs) ==
    IF IterPlus(vec[v].size_, 0, off) < 0
    THEN {Out(vec, heap, "out_of_range", 0)}
    ELSE outs

Init ==
    /\ vec = InitVec /\ heap = InitHeap /\ last = NoCall
    /\ table = InitTable

CallDefaultCtor(v) == Call("Vector()", v, 0, <<>>, DefaultCtor(vec, heap, v))
CallFillCtor(v) ==
    \E n \in 0..MaxCap, x \in Values :
        Call("Vector(n,value)", v, n, <<x>>, FillCtor(vec, heap, v, n, x))
CallListCtor(v) ==
    \E items \in ArgLists :
        Call("Vector(items)", v, 0, items, ListCtor(vec, heap, v, items))
CallCopyCtor(v, w) == Call("Vector(const&)", v, 0, <<>>, CopyCtor(vec, heap, v, w))
CallMoveCtor(v, w) == Call("Vector(&&)", v, 0, <<>>, MoveCtor(vec, heap, v, w))
CallMoveAssign(v, w) ==
    Call("operator=(&&)", v, 0, <<>>, MoveAssign(vec, heap, v, w))
CallReserve(v) ==
    \E c \in Caps : Call("reserve", v, c, <<>>, reserve(vec, heap, v, c))
CallShrinkToFit(v) == Call("shrink_to_fit", v, 0, <<>>, shrink_to_fit(vec, heap, v))
CallAt(v) ==
    \E p \in Positions : Call("at", v, p, <<>>, at(vec, heap, v, p))
CallIndex(v) ==
    \E p \in Positions : Call("operator[]", v, p, <<>>, Index(vec, heap, v, p))
CallFront(v) == Call("front", v, 0, <<>>, front(vec, heap, v))
CallBack(v) == Call("back", v, 0, <<>>, back(vec, heap, v))
CallSetElement(v) ==
    \E p \in Positions, x \in Values :
        Call("set_element", v, p, <<x>>, set_element(vec, heap, v, p, x))
CallClear(v) == Call("clear", v, 0, <<>>, clear(vec, heap, v))
CallPopBack(v) == Call("pop_back", v, 0, <<>>, pop_back(vec, heap, v))
CallPushBack(v) ==
    \E x \in Values : Call("push_back", v, 0, <<x>>, push_back(vec, heap, v, x))
CallSwap(v, w) == Call("swap", v, 0, <<>>, swap(vec, heap, v, w))
CallInsert(v) ==
    \E off \in Offsets, x \in Values :
        Call("insert", v, off, <<x>>,
             AtOffset(v, off, insert(vec, heap, v, off, x)))
CallInsertMany(v) ==
    \E off \in Offsets, args \in ArgLists :
        Call("insert_many", v, off, args,
             AtOffset(v, off, insert_many(vec, heap, v, off, args)))
CallInsertManyBack(v) ==
    \E args \in ArgLists :
        Call("insert_many_back", v, 0, args,
             insert_many_back(vec, heap, v, args))
CallErase(v) ==
    \E off \in Offsets :
        Call("erase", v, off, <<>>, AtOffset(v, off, erase(vec, heap, v, off)))

CallPushThenPop(v) ==
    \E xs \in ArgLists :
        Call("push_back^n pop_back^n", v, 0, xs, PushThenPop(vec, heap, v, xs))

\* The values of a run of push_back calls on a new Vector.
PushLists == UNION {[1..n -> {DefaultValue}] : n \in 1..MaxCap}
CallPushBacks(v) ==
    \E xs \in PushLists :
        Call("Vector() push_back^k", v, 0, xs, PushBacks(vec, heap, v, xs))

\* The caller takes the outcome (the value or the exception) and goes on.
Return ==
    /\ last # NoCall
    /\ last.res # "crash"
    /\ last' = NoCall
    /\ UNCHANGED <<vec, heap, table>>

\* A program that works on the one Vector a.
Next ==
    \/ Return
    \/ CallDefaultCtor("a") \/ CallFillCtor("a") \/ CallListCtor("a")
    \/ CallReserve("a") \/ CallShrinkToFit("a")
    \/ CallAt("a") \/ CallIndex("a") \/ CallFront("a") \/ CallBack("a")
    \/ CallSetElement("a")
    \/ CallClear("a") \/ CallPopBack("a") \/ CallPushBack("a")
    \/ CallInsert("a") \/ CallInsertMany("a") \/ CallInsertManyBack("a")
    \/ CallErase("a")
    \/ CallPushThenPop("a") \/ CallPushBacks("a")

Spec == Init /\ [][Next]_vars

\* The second of the two Vectors.
Other(v) == CHOOSE w \in Vecs : w # v

CallSwapTwice(v, w) ==
    Call("swap swap", v, 0, <<>>, SwapTwice(vec, heap, v, w))

\* The initializer lists the two Vectors are constructed from.
PairItems == {<<>>, <<1>>, <<1, 2>>}
CallListCtorPair(v) ==
    \E items \in PairItems :
        Call("Vector(items)", v, 0, items, ListCtor(vec, heap, v, items))

\* A program that works on the two Vectors a and b: it constructs them,
\* copies, moves and swaps one from or with the other, and changes each.
NextPair ==
    \/ Return
    \/ \E v \in Vecs :
          \/ CallDefaultCtor(v) \/ CallListCtorPair(v)
          \/ CallCopyCtor(v, Other(v)) \/ CallMoveCtor(v, Other(v))
          \/ CallMoveAssign(v, Other(v))
          \/ CallSwap(v, Other(v)) \/ CallSwapTwice(v, Other(v))
          \/ CallPushBack(v)

SpecPair == Init /\ [][NextPair]_vars

\* ------------------------------------------------------------- Set
\* The keys a Set is used with.
SetKeys == 1..3
\* The initializer lists a Set is constructed from.
KeyLists == UNION {[1..n -> SetKeys] : n \in 0..MaxArgs}

\* The keyed table hash_table<K, K, H> behind a Set: its entries, each a pair
\* <<key, mapped value>>, in the order iteration yields them.  A position is
\* the index of an entry; end() is the position after the last entry.
TableSize(tb) == Len(tb)
TableEnd(tb) == Len(tb) + 1
TableKeys(tb) == {tb[i][1] : i \in 1..Len(tb)}
\* find(key): the position of the entry with this key, or end().
TableFind(tb, key) ==
    IF key \in TableKeys(tb)
    THEN CHOOSE i \in 1..Len(tb) : tb[i][1] = key
    ELSE TableEnd(tb)
\* contains(key)
TableContains(tb, key) == key \in TableKeys(tb)
\* What insert returns, pair<iterator, bool>, as one number.
InsertResult(position, inserted) == position * 2 + (IF inserted THEN 1 ELSE 0)
Inserted(result) == result % 2 = 1
\* An insert that adds the entry without looking the key up.
TableInsertNoLookup(tb, p) ==
    [t |-> Append(tb, p), ret |-> InsertResult(Len(tb) + 1, TRUE)]
\* insert(value_type): unique-key insert returning (position, inserted flag);
\* an entry with a key that is present is rejected.
TableInsert(tb, p) ==
    IF TableContains(tb, p[1])
    THEN [t |-> tb, ret |-> InsertResult(TableFind(tb, p[1]), FALSE)]
    ELSE [t |-> Append(tb, p), ret |-> InsertResult(Len(tb) + 1, TRUE)]
\* t[key] = value: the entry of key, made if there is none, gets the value.
TableAssign(tb, key, value) ==
    IF TableContains(tb, key)
    THEN [tb EXCEPT ![TableFind(tb, key)] = <<key, value>>]
    ELSE Append(tb, <<key, value>>)
\* erase(position) of a position that designates an entry.
TableErase(tb, position) ==
    SubSeq(tb, 1, position - 1) \o SubSeq(tb, position + 1, Len(tb))

\* Set(std::initializer_list<mapped_type> const& items)
RECURSIVE SetListCtor(_, _)
SetListCtor(tb, items) ==
    IF items = <<>> THEN tb
    ELSE SetListCtor(TableAssign(tb, Head(items), Head(items)), Tail(items))
\* std::pair<iterator, bool> insert(const mapped_type& value)
SetInsert(tb, value) == TableInsert(tb, <<value, value>>)
\* void erase(iterator pos)
SetErase(tb, position) == TableErase(tb, position)
\* iterator find(const key_type& key)
SetFind(tb, key) == TableFind(tb, key)
\* bool contains(const key_type& key) const noexcept
SetContains(tb, key) == TableContains(tb, key)
\* size_type size() const noexcept
SetSize(tb) == TableSize(tb)
\* void clear()
SetClear(tb) == <<>>
\* void swap(Set& other)
SetSwap(tbs, s, o) == [tbs EXCEPT ![s] = tbs[o], ![o] = tbs[s]]

\* A call on Set s with the key k: the tables it leaves and what it returns.
SetCall(op, s, keys, tbs, ret) ==
    /\ last = NoCall
    /\ table' = tbs
    /\ last' = [op |-> op, v |-> s, pos |-> 0, vals |-> keys,
                res |-> "none", ret |-> ret]
    /\ UNCHANGED <<vec, heap>>

CallSetListCtor(s) ==
    \E items \in KeyLists :
        SetCall("Set(items)", s, items,
                [table EXCEPT ![s] = SetListCtor(<<>>, items)], 0)
CallSetInsert(s) ==
    \E k \in SetKeys :
        LET r == SetInsert(table[s], k)
        IN SetCall("Set::insert", s, <<k>>, [table EXCEPT ![s] = r.t], r.ret)
\* s.erase(s.find(k)) for a key k the Set holds.
CallSetEraseFound(s) ==
    \E k \in SetKeys :
        /\ SetContains(table[s], k)
        /\ SetCall("Set::erase", s, <<k>>,
                   [table EXCEPT ![s] = SetErase(@, SetFind(@, k))], 0)
CallSetFind(s) ==
    \E k \in SetKeys :
        SetCall("Set::find", s, <<k>>, table, SetFind(table[s], k))
CallSetContains(s) ==
    \E k \in SetKeys :
        SetCall("Set::contains", s, <<k>>, table,
                IF SetContains(table[s], k) THEN 1 ELSE 0)
CallSetClear(s) ==
    SetCall("Set::clear", s, <<>>, [table EXCEPT ![s] = SetClear(@)], 0)
CallSetSwap(s, o) ==
    SetCall("Set::swap", s, <<>>, SetSwap(table, s, o), 0)

\* A program that works on the two Sets a and b.
NextSet ==
    \/ Return
    \/ \E s \in Vecs :
          \/ CallSetListCtor(s) \/ CallSetInsert(s) \/ CallSetEraseFound(s)
          \/ CallSetFind(s) \/ CallSetContains(s)
          \/ CallSetClear(s) \/ CallSetSwap(s, Other(s))

SpecSet == Init /\ [][NextSet]_vars

\* ------------------------------------------------------------- observation
\* A marker for an element whose slot lies past the end of the buffer.
PastEnd == 0 - 1
\* What Vector r holds at its positions [0, size_): the slots of its buffer,
\* and PastEnd where the buffer has no such slot.
ElemsOf(h, r) ==
    [i \in 1..r.size_ |->
        IF i <= Allocated(h, r) THEN Slots(h, r.data_)[i] ELSE PastEnd]
\* The Vector keeps its own promise: [0, size_) lies in [0, capacity_), and
\* the capacity_ slots exist.
Sound(h, r) == r.size_ <= r.capacity_ /\ r.capacity_ <= Allocated(h, r)

\* The Vector the last call was made on, before and after the step.
Obj == vec[last'.v]
ObjAfter == vec'[last'.v]
Returned(op) == last'.op = op /\ last'.res = "none"

Unchanged == vec' = vec /\ heap' = heap
Ins(old, p, vs) == SubSeq(old, 1, p) \o vs \o SubSeq(old, p + 1, Len(old))
Del(old, p) == SubSeq(old, 1, p) \o SubSeq(old, p + 2, Len(old))

\* ------------------------------------------------------------- C1
\* What C1 says of a step: the Vector holds old[0..p), the values in
\* argument order, old[p..size), and size() grew by their number.
C1_Post ==
    /\ ObjAfter.size_ = Obj.size_ + Len(last'.vals)
    /\ ElemsOf(heap', ObjAfter) = Ins(ElemsOf(heap, Obj), last'.pos, last'.vals)

\* C1: for every array state, every offset p in [0, size] and every
\* non-empty value list, insert_many(begin() + p, v1..vn) that returns leaves
\* old[0..p), v1..vn, old[p..old_size) and size() = old_size + n.
C1_InsertManyPlacesValues ==
    [][(Returned("insert_many") /\ last'.vals # <<>>) => C1_Post]_vars

\* The same from the states in which size_ <= capacity_ <= allocated slots.
C1_FromSound ==
    [][(Returned("insert_many") /\ last'.vals # <<>> /\ Sound(heap, Obj))
          => C1_Post]_vars

\* ------------------------------------------------------------- C2
\* C2: after any sequence of public operations, 0 <= size() <= capacity().
C2_SizeWithinCapacity ==
    last.res # "crash" =>
        \A v \in Vecs : 0 <= vec[v].size_ /\ vec[v].size_ <= vec[v].capacity_

\* ------------------------------------------------------------- C3
C3_Post ==
    /\ ObjAfter.size_ = Obj.size_ + Len(last'.vals)
    /\ ElemsOf(heap', ObjAfter) = ElemsOf(heap, Obj) \o last'.vals
    /\ ObjAfter.capacity_ >= ObjAfter.size_

\* C3: insert_many_back(v1..vn), n >= 1, from any state turns the sequence s
\* into s followed by v1..vn, with size() = |s| + n and capacity() >= size().
C3_InsertManyBackAppends ==
    [][(Returned("insert_many_back") /\ last'.vals # <<>>) => C3_Post]_vars

\* The same for one value (push_back) from the Sound states.
C3_OneValueFromSound ==
    [][(Returned("insert_many_back") /\ Len(last'.vals) = 1 /\ Sound(heap, Obj))
          => C3_Post]_vars

\* ------------------------------------------------------------- C4
\* A checked access at pos: std::out_of_range and nothing changed for
\* pos >= size; for pos < size no exception, and a read returns the element
\* at pos and changes nothing.
C4_Checked(pos) ==
    /\ pos >= Obj.size_ => (last'.res = "out_of_range" /\ Unchanged)
    /\ pos < Obj.size_ =>
          /\ last'.res = "none"
          /\ last'.op # "set_element" =>
                (last'.ret = ElemsOf(heap, Obj)[pos + 1] /\ Unchanged)

C4_Post ==
    /\ last'.op \in {"at", "operator[]", "set_element"} => C4_Checked(last'.pos)
    /\ last'.op = "front" => C4_Checked(0)
    /\ last'.op = "back" => C4_Checked(Wrap(Obj.size_ - 1))

\* C4: at, operator[] and set_element raise OutOfRange exactly for pos >= size
\* (size, size + k, the wrapped -1), front and back raise on an empty array,
\* leaving everything unchanged; for pos < size they return the element at pos
\* (front element 0, back element size - 1).
C4_CheckedAccess == [][C4_Post]_vars

\* The same from the Sound states.
C4_FromSound == [][Sound(heap, Obj) => C4_Post]_vars

\* The range check alone, from every state: the exception is raised exactly
\* for pos >= size, and then nothing has changed.
C4_RaisesExactlyOutside ==
    [][last'.op \in {"at", "operator[]", "set_element"} =>
          /\ (last'.res = "out_of_range") <=> (last'.pos >= Obj.size_)
          /\ last'.res = "out_of_range" => Unchanged]_vars

\* ------------------------------------------------------------- C5
C5_Post ==
    /\ ObjAfter.capacity_ =
          (IF last'.pos > Obj.capacity_ THEN last'.pos ELSE Obj.capacity_)
    /\ ObjAfter.size_ = Obj.size_
    /\ ElemsOf(heap', ObjAfter) = ElemsOf(heap, Obj)

\* C5: reserve(c), c >= 1, never decreases capacity(): it becomes c if
\* c > capacity() and is unchanged otherwise; size() and the elements
\* [0, size) are unchanged.
C5_ReserveKeepsElements ==
    [][(Returned("reserve") /\ last'.pos >= 1) => C5_Post]_vars

\* The same from the Sound states.
C5_FromSound ==
    [][(Returned("reserve") /\ last'.pos >= 1 /\ Sound(heap, Obj)) => C5_Post]_vars

\* ------------------------------------------------------------- C6
C6_Post ==
    /\ ObjAfter.capacity_ = (IF Obj.capacity_ < 2 THEN 2 ELSE Obj.capacity_)
    /\ ObjAfter.size_ = Obj.size_
    /\ ElemsOf(heap', ObjAfter) = ElemsOf(heap, Obj)
    /\ Obj.capacity_ >= 2 => Unchanged

\* C6: reserve(0) is reserve(2): with capacity() < 2 it leaves capacity() = 2,
\* size and elements unchanged; with capacity() >= 2 it changes nothing.
C6_ReserveZeroIsTwo ==
    [][(Returned("reserve") /\ last'.pos = 0) => C6_Post]_vars

\* The same from the Sound states.
C6_FromSound ==
    [][(Returned("reserve") /\ last'.pos = 0 /\ Sound(heap, Obj)) => C6_Post]_vars

\* ------------------------------------------------------------- C7
C7_Post ==
    /\ ObjAfter.capacity_ = ObjAfter.size_
    /\ ObjAfter.capacity_ <= Obj.capacity_
    /\ ObjAfter.size_ = Obj.size_
    /\ ElemsOf(heap', ObjAfter) = ElemsOf(heap, Obj)

\* C7: after shrink_to_fit() from any reachable state capacity() = size(),
\* capacity() is not larger than before, size() and the elements are unchanged.
C7_ShrinkToFitExact == [][Returned("shrink_to_fit") => C7_Post]_vars

\* The same from the Sound states.
C7_FromSound ==
    [][(Returned("shrink_to_fit") /\ Sound(heap, Obj)) => C7_Post]_vars

\* ------------------------------------------------------------- C8
C8_Post ==
    /\ ObjAfter.size_ = Obj.size_ - 1
    /\ ObjAfter.capacity_ = Obj.capacity_
    /\ ElemsOf(heap', ObjAfter) = Del(ElemsOf(heap, Obj), last'.pos)

\* C8: erase(begin() + p), p in [0, size), that returns leaves old[0..p)
\* followed by old[p+1..old_size), size() = old_size - 1, capacity() unchanged.
C8_EraseRemovesOne ==
    [][(Returned("erase") /\ last'.pos < Obj.size_) => C8_Post]_vars

\* The same from the Sound states, where the call also always returns.
C8_FromSound ==
    [][(last'.op = "erase" /\ 0 <= last'.pos /\ last'.pos < Obj.size_
          /\ Sound(heap, Obj)) => (last'.res = "none" /\ C8_Post)]_vars

C10_Post ==
    /\ ObjAfter.size_ = Obj.size_
    /\ ElemsOf(heap', ObjAfter) = ElemsOf(heap, Obj)
    /\ ObjAfter.capacity_ >= Obj.capacity_

\* C10: from any array state, n push_back calls followed by n pop_back calls
\* leave size() and the elements [0, size) as they were, and capacity() not
\* smaller than before.
C10_PushThenPopRestores ==
    [][Returned("push_back^n pop_back^n") => C10_Post]_vars

\* The same from the Sound states.
C10_FromSound ==
    [][(Returned("push_back^n pop_back^n") /\ Sound(heap, Obj)) => C10_Post]_vars

\* ------------------------------------------------------------- C11
\* C11: pop_back() raises nothing; it takes exactly one off size() when
\* size > 0 and changes nothing when size == 0; capacity(), the buffer and
\* the remaining elements [0, size - 1) are what they were, and size() >= 0.
C11_PopBackDropsLast ==
    [][last'.op = "pop_back" =>
          /\ last'.res = "none"
          /\ ObjAfter.size_ = (IF Obj.size_ > 0 THEN Obj.size_ - 1 ELSE 0)
          /\ ObjAfter.size_ >= 0
          /\ ObjAfter.capacity_ = Obj.capacity_
          /\ ObjAfter.data_ = Obj.data_
          /\ heap' = heap
          /\ ElemsOf(heap', ObjAfter)
                = SubSeq(ElemsOf(heap, Obj), 1, ObjAfter.size_)]_vars

\* pop_back has returned on a Vector of capacity 2 that is now empty and
\* still has both slots: the last of the pop_backs on {x, y}, or one more.
C11_Witness ==
    /\ last.op = "pop_back"
    /\ last.res = "none"
    /\ vec[last.v].size_ = 0
    /\ vec[last.v].capacity_ = 2
    /\ Allocated(heap, vec[last.v]) = 2

\* ------------------------------------------------------------- C12
\* C12: clear() sets size() to 0; capacity(), the buffer the Vector owns and
\* every slot of every buffer are what they were.
C12_ClearKeepsStorage ==
    [][last'.op = "clear" =>
          /\ last'.res = "none"
          /\ ObjAfter.size_ = 0
          /\ ObjAfter.capacity_ = Obj.capacity_
          /\ ObjAfter.data_ = Obj.data_
          /\ heap' = heap]_vars

\* clear has returned on a Vector that still owns a buffer of written slots.
C12_Witness ==
    /\ last.op = "clear"
    /\ vec[last.v].size_ = 0
    /\ vec[last.v].capacity_ >= 2
    /\ Allocated(heap, vec[last.v]) >= 2

\* ------------------------------------------------------------- C13
\* C13: a.swap(b) gives a the buffer, size and capacity b had and b those a
\* had, and no slot of any buffer is written; a.swap(b) done twice leaves
\* both Vectors and every buffer as they were.
C13_SwapExchanges ==
    [][/\ last'.op = "swap" =>
             /\ last'.res = "none"
             /\ vec'[last'.v] = vec[Other(last'.v)]
             /\ vec'[Other(last'.v)] = vec[last'.v]
             /\ heap' = heap
       /\ last'.op = "swap swap" => (last'.res = "none" /\ Unchanged)]_vars

\* swap has returned on two Vectors that own different buffers and differ in
\* size and in capacity.
C13_Witness ==
    /\ last.op = "swap"
    /\ vec["a"].data_ # Null /\ vec["b"].data_ # Null
    /\ vec["a"].data_ # vec["b"].data_
    /\ vec["a"].size_ = 2 /\ vec["b"].size_ = 1
    /\ vec["a"].capacity_ # vec["b"].capacity_

\* ------------------------------------------------------------- C14
\* The calls made on two Vectors, and the Vector that is not `last'.v`.
PairOps == {"Vector(const&)", "Vector(&&)", "operator=(&&)", "swap", "swap swap"}
Src == vec[Other(last'.v)]
SrcAfter == vec'[Other(last'.v)]

\* The copy holds the source's elements in a buffer of its own with
\* size == capacity == the source's size, and the source is what it was.
C14_Copied ==
    /\ ObjAfter.size_ = Src.size_
    /\ ObjAfter.capacity_ = Src.size_
    /\ ElemsOf(heap', ObjAfter) = ElemsOf(heap, Src)
    /\ ObjAfter.data_ # Null
    /\ ObjAfter.data_ # SrcAfter.data_
    /\ SrcAfter = Src
    /\ Slots(heap', SrcAfter.data_) = Slots(heap, Src.data_)

\* A call on one Vector that does not end the process leaves the other
\* Vector's fields and buffer as they were.
C14_Independent ==
    (last'.op \notin PairOps /\ last'.res # "crash") =>
        /\ SrcAfter = Src
        /\ Slots(heap', SrcAfter.data_) = Slots(heap, Src.data_)

\* C14: copy-construction gives the same elements in the same order,
\* size == capacity == the source's size, in a fresh buffer, and leaves the
\* source unchanged; a later change of either Vector never changes the other.
C14_CopyIsIndependent ==
    [][(Returned("Vector(const&)") => C14_Copied) /\ C14_Independent]_vars

\* The same with a source in which size_ <= capacity_ <= allocated slots.
C14_FromSound ==
    [][((Returned("Vector(const&)") /\ Sound(heap, Src)) => C14_Copied)
          /\ C14_Independent]_vars

\* ------------------------------------------------------------- C15
\* C15: move-construction gives the new Vector the source's buffer (no slot
\* is copied or written), the source's former size and its former elements
\* in order, and leaves the source with size() == 0 and capacity() == 0.
C15_MoveCtorTransfers ==
    [][last'.op = "Vector(&&)" =>
          /\ last'.res = "none"
          /\ ObjAfter.data_ = Src.data_
          /\ ObjAfter.size_ = Src.size_
          /\ Slots(heap', ObjAfter.data_) = Slots(heap, Src.data_)
          /\ ElemsOf(heap', ObjAfter) = ElemsOf(heap, Src)
          /\ SrcAfter.size_ = 0
          /\ SrcAfter.capacity_ = 0
          /\ SrcAfter.data_ = Null]_vars

\* A Vector of two elements has been move-constructed, and its source is
\* empty.
C15_Witness ==
    /\ last.op = "Vector(&&)"
    /\ vec[last.v].size_ = 2
    /\ Allocated(heap, vec[last.v]) >= 2
    /\ vec[Other(last.v)] = EmptyVector

\* ------------------------------------------------------------- C16
C16_Post ==
    /\ ObjAfter.size_ = Src.size_
    /\ ElemsOf(heap', ObjAfter) = ElemsOf(heap, Src)

\* C16: after a = move(b) that returns, whatever a held before, a.size() is
\* b's former size and a holds b's former elements [0, size) in order.
C16_MoveAssignTakesElements ==
    [][Returned("operator=(&&)") => C16_Post]_vars

\* The same with a source in which size_ <= capacity_ <= allocated slots.
C16_FromSound ==
    [][(Returned("operator=(&&)") /\ Sound(heap, Src)) => C16_Post]_vars

\* ------------------------------------------------------------- C17
\* C17: after a = move(b) that returns, b.size() == 0 and b.capacity() == 0,
\* and a owns the buffer b owned before.
C17_MoveAssignEmptiesSource ==
    [][Returned("operator=(&&)") =>
          /\ SrcAfter.size_ = 0
          /\ SrcAfter.capacity_ = 0
          /\ ObjAfter.data_ = Src.data_]_vars

\* ------------------------------------------------------------- C18
\* A constructed Vector of n elements: size == capacity == n, a buffer of
\* exactly n slots, and the elements are `elems`.
C18_Constructed(n, elems) ==
    /\ ObjAfter.size_ = n
    /\ ObjAfter.capacity_ = n
    /\ Allocated(heap', ObjAfter) = n
    /\ ElemsOf(heap', ObjAfter) = elems

\* C18: Vector(count, value) that returns has size() == capacity() == count
\* and every slot equal to value; Vector(sequence) that returns has
\* size() == capacity() == len(sequence) and the elements in sequence order;
\* Vector() has size() == capacity() == 0.
C18_ConstructionSizeIsCapacity ==
    [][/\ Returned("Vector(n,value)") =>
             C18_Constructed(last'.pos, [i \in 1..last'.pos |-> last'.vals[1]])
       /\ Returned("Vector(items)") =>
             C18_Constructed(Len(last'.vals), last'.vals)
       /\ last'.op = "Vector()" =>
             (last'.res = "none" /\ ObjAfter = EmptyVector)]_vars

\* Vector(3, 2) has returned: three slots, each holding 2.
C18_Witness ==
    /\ last.op = "Vector(n,value)"
    /\ last.res = "none"
    /\ last.pos = 3
    /\ vec[last.v].size_ = 3
    /\ Slots(heap, vec[last.v].data_) = <<2, 2, 2>>

\* ------------------------------------------------------------- C19
\* C19: when the allocation of the growth step fails in reserve, insert,
\* insert_many, insert_many_back or push_back, the call fails and size(),
\* capacity() and the elements [0, size) are what they were before it.
C19_FailedGrowthChangesNothing ==
    [][(last'.op \in {"reserve", "insert", "insert_many", "insert_many_back",
                      "push_back"}
          /\ last'.res = "runtime_error")
        => /\ ObjAfter.size_ = Obj.size_
           /\ ObjAfter.capacity_ = Obj.capacity_
           /\ ElemsOf(heap', ObjAfter) = ElemsOf(heap, Obj)]_vars

\* What does hold of a failed growth step: size(), the buffer and its slots
\* are what they were; only capacity() may have changed.
C19_FailedGrowthKeepsElements ==
    [][(last'.op \in {"reserve", "insert", "insert_many", "insert_many_back",
                      "push_back"}
          /\ last'.res = "runtime_error")
        => /\ ObjAfter.size_ = Obj.size_
           /\ ObjAfter.data_ = Obj.data_
           /\ heap' = heap]_vars

\* ------------------------------------------------------------- C20
\* C20: an allocation that cannot be satisfied inside an allocating call
\* reaches the caller as std::runtime_error "Error: Failed to allocate
\* memory": no call ends with std::bad_alloc, and a move-assignment from a
\* source whose elements all lie in its buffer (so that nothing but the
\* allocation can go wrong in it) does not end the process.
C20_AllocationFailureIsRuntimeError ==
    [][/\ last'.res # "bad_alloc"
       /\ (last'.op = "operator=(&&)" /\ Sound(heap, Src)) =>
             last'.res # "crash"]_vars

\* What does hold: the constructors, reserve and the inserts report a failed
\* allocation as std::runtime_error or not at all; std::bad_alloc comes from
\* shrink_to_fit only.
C20_BadAllocOnlyFromShrinkToFit ==
    last.res = "bad_alloc" => last.op = "shrink_to_fit"

\* ------------------------------------------------------------- C21
\* The iterator the call returned is over the buffer the Vector has after the
\* call, at offset p, and the slot it designates exists and holds v1.
C21_Post ==
    /\ IterData(last'.ret) = ObjAfter.data_
    /\ IterIndex(last'.ret) = last'.pos
    /\ ReadAt(Slots(heap', IterData(last'.ret)), IterIndex(last'.ret))
          = {last'.vals[1]}

\* C21: insert_many(begin() + p, v1..vn), n >= 1, that returns, returns an
\* iterator over the Vector's buffer after the call at offset p, and
\* dereferencing it yields v1, whether the call reallocated or not.
C21_InsertManyReturnsFirstInserted ==
    [][(Returned("insert_many") /\ last'.vals # <<>>) => C21_Post]_vars

\* The same from the states in which size_ <= capacity_ <= allocated slots.
C21_FromSound ==
    [][(Returned("insert_many") /\ last'.vals # <<>> /\ Sound(heap, Obj))
          => C21_Post]_vars

C23_InsertManyOfNothingFinishes ==
    [][(last'.op = "insert_many" /\ last'.vals = <<>>
            /\ last'.pos \in 0..Obj.size_)
          => /\ last'.res # "crash"
             /\ last'.res = "none" =>
                   /\ ObjAfter.size_ = Obj.size_
                   /\ ObjAfter.capacity_ = Obj.capacity_
                   /\ ElemsOf(heap', ObjAfter) = ElemsOf(heap, Obj)]_vars

\* ------------------------------------------------------------- C24
\* What C24 says of a step at(pos) or set_element(pos, value), pos in
\* [0, size): at returns what position pos holds and changes nothing;
\* set_element makes position pos hold value and leaves size, capacity and
\* the other positions as they were.
C24_Post ==
    /\ last'.res = "none"
    /\ last'.op = "at" =>
          /\ last'.ret = ElemsOf(heap, Obj)[last'.pos + 1]
          /\ Unchanged
    /\ last'.op = "set_element" =>
          /\ ObjAfter.size_ = Obj.size_
          /\ ObjAfter.capacity_ = Obj.capacity_
          /\ ElemsOf(heap', ObjAfter)
                = [ElemsOf(heap, Obj) EXCEPT ![last'.pos + 1] = last'.vals[1]]

\* C24: for every pos in [0, size), at(pos) returns the value last written to
\* that position and changes nothing, and set_element(pos, v) changes
\* position pos only.
C24_AtReadsWhatWasWritten ==
    [][(last'.op \in {"at", "set_element"} /\ last'.pos < Obj.size_)
          => C24_Post]_vars

\* The same from the states in which size_ <= capacity_ <= allocated slots.
C24_FromSound ==
    [][(last'.op \in {"at", "set_element"} /\ last'.pos < Obj.size_
            /\ Sound(heap, Obj))
          => C24_Post]_vars

\* ------------------------------------------------------------- C25
\* No two entries of a table have the same key.
UniqueKeys(tb) ==
    \A i \in 1..Len(tb), j \in 1..Len(tb) : tb[i][1] = tb[j][1] => i = j

SetOps == {"Set(items)", "Set::insert", "Set::erase", "Set::find",
           "Set::contains", "Set::clear", "Set::swap"}

\* What C25 says of a call on Set s with key k, old and new being the
\* table of s before and after it.
C25_Post ==
    LET s == last'.v
        old == table[s]
        new == table'[s]
        k == last'.vals[1]
    IN /\ \A x \in Vecs : UniqueKeys(table'[x])
       /\ last'.op = "Set(items)" =>
             TableKeys(new) = {last'.vals[i] : i \in 1..Len(last'.vals)}
       /\ last'.op = "Set::insert" =>
             IF k \in TableKeys(old)
             THEN ~Inserted(last'.ret) /\ new = old
             ELSE /\ Inserted(last'.ret)
                  /\ TableKeys(new) = TableKeys(old) \cup {k}
                  /\ SetSize(new) = SetSize(old) + 1
       /\ last'.op = "Set::contains" =>
             /\ (last'.ret = 1) <=> (k \in TableKeys(old))
             /\ table' = table
       /\ last'.op = "Set::find" =>
             /\ k \notin TableKeys(old) => last'.ret = TableEnd(old)
             /\ k \in TableKeys(old) => old[last'.ret][1] = k
             /\ table' = table
       /\ last'.op = "Set::erase" =>
             /\ SetSize(new) = SetSize(old) - 1
             /\ TableKeys(new) = TableKeys(old) \ {k}
       /\ last'.op = "Set::clear" => TableKeys(new) = {}
       /\ last'.op = "Set::swap" =>
             /\ table'[s] = table[Other(s)]
             /\ table'[Other(s)] = table[s]
       /\ last'.op # "Set::swap" => table'[Other(s)] = table[Other(s)]

\* C25: over every sequence of construction, insert, erase, swap and clear
\* on two Sets, keys stay unique; insert of an absent key adds it with flag
\* true, insert of a present key returns flag false and changes nothing;
\* contains(k) tells whether k is among the keys, which are the keys
\* inserted and not erased since; find of an absent key is end();
\* erase(find(k)) takes k out and size down by one; swap exchanges the two.
C25_SetKeepsKeysUnique ==
    [][last'.op \in SetOps => C25_Post]_vars

\* An insert of a key the Set holds, next to another key, was rejected.
C25_Witness ==
    /\ last.op = "Set::insert"
    /\ ~Inserted(last.ret)
    /\ SetSize(table[last.v]) = 2
    /\ SetSize(table[Other(last.v)]) = 1

\* ------------------------------------------------------------- C26
\* The smallest p * 2^i that is >= n.
RECURSIVE PowerOfTwoFrom(_, _)
PowerOfTwoFrom(p, n) == IF p >= n THEN p ELSE PowerOfTwoFrom(2 * p, n)

\* What C26 says of one append: a full Vector has twice its capacity
\* afterwards (2 when it had none), one with free slots keeps its capacity.
C26_Post ==
    /\ Obj.size_ = Obj.capacity_ =>
          ObjAfter.capacity_ = (IF Obj.capacity_ = 0 THEN 2 ELSE 2 * Obj.capacity_)
    /\ Obj.size_ < Obj.capacity_ => ObjAfter.capacity_ = Obj.capacity_

C27_Post ==
    LET n == Len(last'.vals)
    IN /\ IF Obj.size_ + n > Obj.capacity_
          THEN ObjAfter.capacity_ = Obj.size_ + n
          ELSE /\ ObjAfter.capacity_ = Obj.capacity_
               /\ ObjAfter.data_ = Obj.data_
       /\ ObjAfter.capacity_ >= ObjAfter.size_

\* C27: insert_many and insert that return have reallocated only when
\* old_size + n > old_capacity, to the capacity old_size + n exactly;
\* otherwise capacity and buffer are unchanged; capacity() >= size() after.
C27_InsertGrowsToFit ==
    [][(Returned("insert_many") \/ Returned("insert")) => C27_Post]_vars

\* insert_many of two values has returned and left a Vector of three
\* elements with capacity 3.
C27_Witness ==
    /\ last.op = "insert_many"
    /\ last.res = "none"
    /\ Len(last.vals) = 2
    /\ vec[last.v].size_ = 3
    /\ vec[last.v].capacity_ = 3

\* ------------------------------------------------------------- C28
\* C28: in every state the program reaches, capacity() of each Vector is the
\* number of slots of the buffer it holds (none when it holds no buffer),
\* also directly after a move construction, a move assignment, a growth
\* and a swap.
C28_CapacityIsAllocatedSlots ==
    last.res # "crash" =>
        \A v \in Vecs : vec[v].capacity_ = Allocated(heap, vec[v])

\* A move assignment that returned, made when both Vectors had exactly the
\* slots their capacity() reported, leaves the target so as well.
C28_MoveAssignFromExact ==
    [][(Returned("operator=(&&)")
            /\ \A v \in Vecs : vec[v].capacity_ = Allocated(heap, vec[v]))
          => ObjAfter.capacity_ = Allocated(heap', ObjAfter)]_vars

\* ------------------------------------------------------------- C29
\* The calls of C29 with valid arguments: an append, an insertion of at
\* least one value at an offset in [0, size], an erase of an offset in
\* [0, size).
C29_ValidCall ==
    \/ last'.op \in {"insert_many_back", "push_back"}
    \/ /\ last'.op \in {"insert_many", "insert"}
       /\ last'.vals # <<>>
       /\ last'.pos \in 0..Obj.size_
    \/ /\ last'.op = "erase"
       /\ last'.pos \in 0..(Obj.size_ - 1)

\* C29: no call with valid arguments reads or writes a slot at an index that
\* is not below the number of slots of the buffer.  Such an access is
\* undefined; one of its outcomes is that the process dies ("crash"), and no
\* other step of these calls has that outcome.
C29_NoAccessPastTheBuffer ==
    [][C29_ValidCall => last'.res # "crash"]_vars

\* The same from the states in which size_ <= capacity_ <= allocated slots.
C29_FromSound ==
    [][(C29_ValidCall /\ Sound(heap, Obj)) => last'.res # "crash"]_vars

\* ------------------------------------------------------------- C30
\* C30: erase(end()), on a Vector with elements or without, either throws
\* or returns with size(), capacity() and the elements as they were; it
\* does not drop the last element and does not take size() below zero.
C30_EraseAtEndRemovesNothing ==
    [][(last'.op = "erase" /\ last'.pos = Obj.size_)
          => /\ last'.res # "crash"
             /\ last'.res = "none" =>
                   /\ ObjAfter.size_ = Obj.size_
                   /\ ObjAfter.capacity_ = Obj.capacity_
                   /\ ElemsOf(heap', ObjAfter) = ElemsOf(heap, Obj)]_vars

\* The same for the Vectors that hold at least one element and have
\* size_ <= capacity_ <= allocated slots.
C30_NonEmptyFromSound ==
    [][(last'.op = "erase" /\ last'.pos = Obj.size_ /\ Obj.size_ > 0
            /\ Sound(heap, Obj))
          => /\ last'.res # "crash"
             /\ last'.res = "none" => ObjAfter.size_ = Obj.size_]_vars

====
